---- MODULE Spec2Model ----
(***************************************************************************)
(* A model of backend/app.py: the upload handler, the LLM extraction call  *)
(* with its in-memory cache, and the provenance resolver.                  *)
(*                                                                         *)
(* Representation.  A Python str is a sequence of one-character strings.   *)
(* A JSON value is a record [k |-> kind, v |-> payload]; a JSON object's   *)
(* payload is a record over the keys the program reads, a key that is not  *)
(* in the object holding Absent.  Python dicts whose key set varies        *)
(* (results, provenance entries) are records whose DOMAIN is the key set.  *)
(***************************************************************************)
EXTENDS Integers, Sequences, FiniteSets, TLC

VARIABLES
  LLM_CACHE,   \* app.LLM_CACHE: cache key -> stored result
  api_key,     \* whether os.environ holds a non-empty OPENAI_API_KEY
  pc,          \* per request slot: "idle", "create" (client call in flight), "done"
  req,         \* per request slot: the request being served
  out,         \* per request slot: the HTTP response of the finished request
  searched,    \* per request slot: whether compute_provenance ran
  invoked,     \* history: cache keys for which client.chat.completions.create ran
  returned_ok, \* history: cache keys for which a call returned status "ok"
  stored_by,   \* history: cache key -> model id and guess-mode flag of the call
               \* that stored the entry
  snippet_call \* a call of _make_snippet: its arguments and, once made, its value

vars ==
  <<LLM_CACHE, api_key, pc, req, out, searched, invoked, returned_ok, stored_by, snippet_call>>

\* ------------------------------------------------------------------ bounds

\* Number of request slots served concurrently (threads of the server).
NReq == 2

\* ------------------------------------------------------- Python primitives

Min(S) == CHOOSE x \in S : \A y \in S : x <= y
Max(S) == CHOOSE x \in S : \A y \in S : x >= y

\* str.lower() on one character of the model's alphabet.
Lower(c) ==
  CASE c = "A" -> "a"
    [] c = "B" -> "b"
    [] c = "O" -> "o"
    [] c = "N" -> "n"
    [] c = "P" -> "p"
    [] c = "D" -> "d"
    [] c = "F" -> "f"
    [] OTHER -> c

StrLower(s) == [i \in 1..Len(s) |-> Lower(s[i])]

IsSpace(c) == c \in {" ", "\n", "\t"}

\* str.strip()
Strip(s) ==
  LET keep == {i \in 1..Len(s) : ~IsSpace(s[i])}
  IN  IF keep = {} THEN <<>> ELSE SubSeq(s, Min(keep), Max(keep))

\* s[lo:hi] for 0 <= lo
Slice(s, lo, hi) == SubSeq(s, lo + 1, IF hi < Len(s) THEN hi ELSE Len(s))

\* s[:n]
Prefix(s, n) == Slice(s, 0, n)

\* str.find: the lowest 0-based index of needle in hay, or -1
Find(hay, needle) ==
  LET P == {p \in 0..(Len(hay) - Len(needle)) :
              SubSeq(hay, p + 1, p + Len(needle)) = needle}
  IN  IF P = {} THEN -1 ELSE Min(P)

EndsWith(s, suffix) ==
  /\ Len(suffix) <= Len(s)
  /\ SubSeq(s, Len(s) - Len(suffix) + 1, Len(s)) = suffix

\* sep.join(parts)
RECURSIVE Join(_, _)
Join(parts, sep) ==
  IF parts = <<>> THEN <<>>
  ELSE IF Len(parts) = 1 THEN parts[1]
  ELSE parts[1] \o sep \o Join(Tail(parts), sep)

\* str.replace("\n", " ")
ReplaceNewlines(s) == [i \in 1..Len(s) |-> IF s[i] = "\n" THEN " " ELSE s[i]]

\* ------------------------------------------------------------- JSON values

Absent == [k |-> "absent", v |-> 0]
None == [k |-> "null", v |-> 0]
JStr(s) == [k |-> "str", v |-> s]
JNum(n) == [k |-> "num", v |-> n]
JBool(b) == [k |-> "bool", v |-> b]
JList(l) == [k |-> "list", v |-> l]
JObj(r) == [k |-> "obj", v |-> r]

IsStr(j) == j.k = "str"
IsList(j) == j.k = "list"
IsDict(j) == j.k = "obj"

\* Python truthiness of a JSON value
Truthy(j) ==
  CASE j.k = "null" -> FALSE
    [] j.k = "absent" -> FALSE
    [] j.k = "bool" -> j.v
    [] j.k = "num" -> j.v # 0
    [] j.k = "str" -> j.v # <<>>
    [] j.k = "list" -> j.v # <<>>
    [] j.k = "obj" -> \E key \in DOMAIN j.v : j.v[key] # Absent

\* dict.get(key): None when the key is not in the object
Get(obj, key) ==
  IF key \in DOMAIN obj.v /\ obj.v[key] # Absent THEN obj.v[key] ELSE None

\* dict.get(key, default)
GetOr(obj, key, default) ==
  IF key \in DOMAIN obj.v /\ obj.v[key] # Absent THEN obj.v[key] ELSE default

\* a or b
Or(a, b) == IF Truthy(a) THEN a ELSE b

\* isinstance(j, str) and j.strip()
NonBlankStr(j) == IsStr(j) /\ Strip(j.v) # <<>>

\* ------------------------------------------------- documents and extraction

\* An uploaded file is [filename, mimetype, data]; data is [fmt, raw, size]:
\*   fmt "pdf":  raw is the sequence of pages, a page being [ok, text]
\*               (ok = FALSE: page.extract_text() raises)
\*   fmt "xlsx": raw is the sequence of worksheets [title, rows], a row being
\*               a sequence of cell texts
\*   fmt "text": raw is the byte string, one character per byte, "<ff>"
\*               standing for a byte that is not valid UTF-8
\* size is len(data).
PDF_MIME == "application/pdf"
XLSX_MIME == "application/vnd.openxmlformats-officedocument.spreadsheetml.sheet"

\* str.lower() on the mimetypes of the model
MimeLower(m) ==
  CASE m = "Application/PDF" -> PDF_MIME
    [] OTHER -> m

DOT_PDF == <<".", "p", "d", "f">>
DOT_XLSX == <<".", "x", "l", "s", "x">>
EMAIL_PDF == <<"e", "m", "a", "i", "l", "_", "p", "d", "f">>
ATTACHMENT == <<"a", "t", "t", "a", "c", "h", "m", "e", "n", "t">>
SHEET_PREFIX == <<"#", " ", "S", "h", "e", "e", "t", ":", " ">>

PreviewLimit == 2000
XlsxPreviewLimit == 8000
SummaryLimit == 1000
XlsxSummaryLimit == 4000
MaxCells == 2000
Context == 120
MaxHits == 1

\* The texts of the pages whose extraction does not raise, in page order.
RECURSIVE PageTexts(_)
PageTexts(pages) ==
  IF pages = <<>> THEN <<>>
  ELSE IF pages[1].ok THEN <<pages[1].text>> \o PageTexts(Tail(pages))
  ELSE PageTexts(Tail(pages))

extract_text_from_pdf(data) ==
  IF data.fmt # "pdf" THEN <<>>          \* PdfReader raises: except -> ""
  ELSE Strip(Join(PageTexts(data.raw), <<"\n">>))

\* The row loop of one worksheet: [lines, count] after the rows.
RECURSIVE XlsxRows(_, _, _, _)
XlsxRows(rows, lines, count, max_cells) ==
  IF rows = <<>> \/ count >= max_cells THEN [lines |-> lines, count |-> count]
  ELSE IF rows[1] # <<>>
       THEN XlsxRows(Tail(rows), Append(lines, Join(rows[1], <<",", " ">>)),
                     count + Len(rows[1]), max_cells)
       ELSE XlsxRows(Tail(rows), lines, count, max_cells)

\* The worksheet loop: the lines collected.
RECURSIVE XlsxSheets(_, _, _, _)
XlsxSheets(sheets, lines, count, max_cells) ==
  IF sheets = <<>> THEN lines
  ELSE LET r == XlsxRows(sheets[1].rows,
                         Append(lines, SHEET_PREFIX \o sheets[1].title),
                         count, max_cells)
       IN  IF r.count >= max_cells THEN r.lines
           ELSE XlsxSheets(Tail(sheets), r.lines, r.count, max_cells)

extract_text_from_xlsx(data, max_cells) ==
  IF data.fmt # "xlsx" THEN <<>>         \* load_workbook raises: except -> ""
  ELSE Strip(Join(XlsxSheets(data.raw, <<>>, 0, max_cells), <<"\n">>))

\* bytes.decode("utf-8", errors="ignore"); the bytes of a PDF or XLSX file
\* decode to their magic number.
Decode(data) ==
  CASE data.fmt = "text" -> SelectSeq(data.raw, LAMBDA c : c # "<ff>")
    [] data.fmt = "pdf" -> <<"%", "P", "D", "F">>
    [] data.fmt = "xlsx" -> <<"P", "K">>

IsPdfNamed(filename, mimetype) ==
  MimeLower(mimetype) = PDF_MIME \/ EndsWith(StrLower(filename), DOT_PDF)

IsXlsxNamed(filename, mimetype) ==
  MimeLower(mimetype) = XLSX_MIME \/ EndsWith(StrLower(filename), DOT_XLSX)

structure_document_json(filename, content_type, data) ==
  [filename |-> filename,
   mime_type |-> content_type,
   size_bytes |-> data.size,
   text_preview |->
     IF IsPdfNamed(filename, content_type)
     THEN Prefix(extract_text_from_pdf(data), PreviewLimit)
     ELSE IF IsXlsxNamed(filename, content_type)
     THEN Prefix(extract_text_from_xlsx(data, MaxCells), XlsxPreviewLimit)
     ELSE Prefix(Decode(data), PreviewLimit)]

\* ---------------------------------------- call_llm_for_structured_output

\* attachments_summary: each preview cut to what is sent to the model
AttachmentSummary(a) ==
  LET is_xlsx == EndsWith(StrLower(a.filename), DOT_XLSX)
                 \/ MimeLower(a.mime_type) = XLSX_MIME
      limit == IF is_xlsx THEN XlsxSummaryLimit ELSE SummaryLimit
  IN  [filename |-> a.filename,
       mime_type |-> a.mime_type,
       size_bytes |-> a.size_bytes,
       text_preview |-> Prefix(a.text_preview, limit)]

AttachmentsSummary(attachments) ==
  [i \in 1..Len(attachments) |-> AttachmentSummary(attachments[i])]

\* schema_description: the fixed schema text and common rules, followed by
\* the rule the guess mode selects.
SchemaDescription(guess_mode) ==
  IF guess_mode THEN "schema+rules_common+rules_infer"
  ELSE "schema+rules_common+rules_strict"

UsedModel(model) == Strip(model)

\* system_instructions: the base instructions followed by the guidance the
\* guess mode selects.
SystemInstructions(guess_mode) ==
  IF guess_mode THEN "base_instructions+infer_guidance"
  ELSE "base_instructions+strict_guidance"

\* user_prompt
UserPrompt(email_text, attachments, guess_mode) ==
  [email_thread_text |-> email_text,
   attachments |-> AttachmentsSummary(attachments),
   instructions |-> SchemaDescription(guess_mode),
   options |-> [guess_mode |-> guess_mode]]

GPT_5 == <<"g", "p", "t", "-", "5">>

\* str.startswith
StartsWith(s, prefix) ==
  Len(prefix) <= Len(s) /\ SubSeq(s, 1, Len(prefix)) = prefix

\* create_args: what client.chat.completions.create is called with
CreateArgs(email_text, attachments, guess_mode, model) ==
  LET used_model == UsedModel(model)
      args == [model |-> used_model,
               response_format |-> "json_object",
               system |-> SystemInstructions(guess_mode),
               user |-> UserPrompt(email_text, attachments, guess_mode)]
  IN  IF ~StartsWith(StrLower(used_model), GPT_5)
      THEN args @@ [temperature |-> 0]
      ELSE args

\* Mutant: the model id is left out of the payload.
CacheKeyNoModel(email_text, attachments, guess_mode, model) ==
  [email_thread_text |-> email_text,
   attachments |-> AttachmentsSummary(attachments),
   instructions |-> SchemaDescription(guess_mode),
   guess_mode |-> guess_mode]

\* Mutant: the payload holds the previews as they came, not cut.
CacheKeyUntruncated(email_text, attachments, guess_mode, model) ==
  [email_thread_text |-> email_text,
   attachments |-> attachments,
   model |-> UsedModel(model),
   instructions |-> SchemaDescription(guess_mode),
   guess_mode |-> guess_mode]

\* cache_key: the SHA-256 digest of the canonical (sorted-key) JSON text of
\* the payload identifies the payload, so the payload stands for its digest.
CacheKey(email_text, attachments, guess_mode, model) ==
  [email_thread_text |-> email_text,
   attachments |-> AttachmentsSummary(attachments),
   model |-> UsedModel(model),
   instructions |-> SchemaDescription(guess_mode),
   guess_mode |-> guess_mode]

\* Mutant: the lookup never hits.
CacheHitNever(cache, key) == FALSE

\* cached = LLM_CACHE.get(cache_key); if cached and cached.get("status") == "ok"
CacheHit(cache, key) ==
  key \in DOMAIN cache /\ cache[key].status = "ok"

\* Mutant: the stored entry is returned as it is, without the marker.
CachedResultUnmarked(cache, key) == cache[key]

\* result = dict(cached); result["cached"] = True
CachedResult(cache, key) ==
  [f \in DOMAIN cache[key] \cup {"cached"} |->
     IF f = "cached" THEN TRUE ELSE cache[key][f]]

\* Mutant: the marker is set on the stored dict itself.
CacheAfterHitAliased(cache, key) ==
  [cache EXCEPT ![key] = CachedResult(cache, key)]

\* LLM_CACHE after a hit: dict(cached) is a new dict, the marker is set on
\* the copy, and the stored entry is as it was.
CacheAfterHit(cache, key) == cache

\* A JSON object without keys
EmptyObj == JObj([raw |-> Absent])

\* What the client call produces.  An outcome is
\*   [o |-> "raise", message, latency]             create() (or OpenAI()) raises
\*   [o |-> "resp", content, total_tokens, latency] a response; content is
\*     [c |-> "json", j]     text that is valid JSON for the value j
\*     [c |-> "empty"]       None or "": replaced by "{}"
\*     [c |-> "wrapped", j]  prose around one JSON object j: json.loads fails,
\*                           the salvage pattern finds the object
\*     [c |-> "broken"]      braces around text that is not JSON: the salvage
\*                           json.loads raises
\*     [c |-> "prose", text] no braces at all
\* total_tokens = 0 stands for a response without usage.
ParseContent(content) ==
  CASE content.c = "json" -> [exc |-> FALSE, parsed |-> content.j]
    [] content.c = "empty" -> [exc |-> FALSE, parsed |-> EmptyObj]
    [] content.c = "wrapped" -> [exc |-> FALSE, parsed |-> content.j]
    [] content.c = "broken" -> [exc |-> TRUE, parsed |-> None]
    [] content.c = "prose" ->
         [exc |-> FALSE, parsed |-> JObj([raw |-> JStr(content.text)])]

ErrorResult(message, latency) ==
  [status |-> "error", message |-> message, latency_ms |-> latency]

SkippedResult == [status |-> "skipped", reason |-> "missing_openai_key"]

\* The result of the try block (lines 274-329) for a client outcome.
\* OPENAI_PRICE_INPUT_PER_1K / OPENAI_PRICE_OUTPUT_PER_1K are not set, so
\* compute_cost_from_usage returns None and no "cost" is attached.
CallResult(used_model, outcome) ==
  IF outcome.o = "raise" THEN ErrorResult(outcome.message, outcome.latency)
  ELSE LET p == ParseContent(outcome.content)
           base == [status |-> "ok", model |-> used_model, data |-> p.parsed,
                    latency_ms |-> outcome.latency]
       IN  IF p.exc THEN ErrorResult("JSONDecodeError", outcome.latency)
           ELSE IF outcome.total_tokens # 0
           THEN base @@ [usage |-> [total_tokens |-> outcome.total_tokens]]
           ELSE base

\* Mutant: the result is stored whatever its status.
StoreAlways(cache, key, result) ==
  [k \in DOMAIN cache \cup {key} |-> IF k = key THEN result ELSE cache[k]]

\* Mutant: the entry is written before the result is formed.
StoreUnformed(cache, key, result) ==
  IF result.status = "ok"
  THEN [k \in DOMAIN cache \cup {key} |->
          IF k = key THEN [status |-> "ok", model |-> result.model] ELSE cache[k]]
  ELSE cache

\* LLM_CACHE[cache_key] = result, reached only with an "ok" result
StoreResult(cache, key, result) ==
  IF result.status = "ok"
  THEN [k \in DOMAIN cache \cup {key} |-> IF k = key THEN result ELSE cache[k]]
  ELSE cache

\* -------------------------------------------------- snippets and searching

ELLIPSIS == <<"...">>   \* the one character U+2026

\* Mutant: the cut at the left is not marked.
_make_snippet_unmarked(text, start, end, context) ==
  LET left == IF start - context > 0 THEN start - context ELSE 0
      right == IF end + context < Len(text) THEN end + context ELSE Len(text)
      snippet == ReplaceNewlines(Slice(text, left, right))
  IN  IF right < Len(text) THEN snippet \o ELLIPSIS ELSE snippet

_make_snippet(text, start, end, context) ==
  LET left == IF start - context > 0 THEN start - context ELSE 0
      right == IF end + context < Len(text) THEN end + context ELSE Len(text)
      snippet == ReplaceNewlines(Slice(text, left, right))
      led == IF left > 0 THEN ELLIPSIS \o snippet ELSE snippet
  IN  IF right < Len(text) THEN led \o ELLIPSIS ELSE led

\* The page loop of find_in_pdf, idx being the 0-based index of pages[1].
RECURSIVE FindInPages(_, _, _, _, _)
FindInPages(pages, idx, term, hits, max_hits) ==
  IF pages = <<>> THEN hits
  ELSE IF ~pages[1].ok THEN FindInPages(Tail(pages), idx + 1, term, hits, max_hits)
  ELSE LET txt == pages[1].text
           pos == Find(StrLower(txt), StrLower(term))
       IN  IF pos # -1
           THEN LET more == Append(hits,
                              [page |-> idx + 1,
                               snippet |-> _make_snippet(txt, pos, pos + Len(term), Context)])
                IN  IF Len(more) >= max_hits THEN more
                    ELSE FindInPages(Tail(pages), idx + 1, term, more, max_hits)
           ELSE FindInPages(Tail(pages), idx + 1, term, hits, max_hits)

find_in_pdf(data, term, max_hits) ==
  IF data.fmt # "pdf" THEN <<>>          \* PdfReader raises: except -> hits
  ELSE FindInPages(data.raw, 0, term, <<>>, max_hits)

\* find_in_text: [found, snippet]; found = FALSE is the None result
find_in_text(text, term) ==
  LET pos == Find(StrLower(text), StrLower(term))
  IN  IF pos = -1 THEN [found |-> FALSE, snippet |-> <<>>]
      ELSE [found |-> TRUE,
            snippet |-> _make_snippet(text, pos, pos + Len(term), Context)]

\* ------------------------------------------------------------- provenance

ScalarFields ==
  <<"broker_name", "broker_email", "brokerage", "complete_brokerage_address">>

FieldKeys ==
  {ScalarFields[i] : i \in 1..Len(ScalarFields)} \cup {"property_addresses"}

\* The keys a citations object of the model can hold: the five fields and a
\* key of the model's own making.
CiteKeys == FieldKeys \cup {"other"}

\* A provenance dict is a function from key to the list stored under it;
\* a key holds a list only once an entry is appended, so the empty list
\* stands for a key that is not in the dict.
EmptyProvenance == [f \in CiteKeys |-> <<>>]

NoProvenance(prov) == \A f \in DOMAIN prov : prov[f] = <<>>

\* An entry: doc (a JSON value), page (0 for None), snippet, and match when
\* it is a non-blank string.
Entry(doc, page, snippet, match) ==
  IF NonBlankStr(match)
  THEN [doc |-> doc, page |-> page, snippet |-> snippet, match |-> match.v]
  ELSE [doc |-> doc, page |-> page, snippet |-> snippet]

\* add_prov of compute_provenance, on the list of one field
add_prov(entries, doc, page, snippet, match) ==
  IF snippet = <<>> THEN entries
  ELSE Append(entries, Entry(JStr(doc), page, snippet, JStr(match)))

\* filename or default
NameOr(filename, default) == IF filename # <<>> THEN filename ELSE default

RECURSIVE AddHits(_, _, _, _)
AddHits(entries, doc, hits, match) ==
  IF hits = <<>> THEN entries
  ELSE AddHits(add_prov(entries, doc, hits[1].page, hits[1].snippet, match),
               doc, Tail(hits), match)

\* The attachment loop of compute_provenance for one searched value.
RECURSIVE SearchAttachments(_, _, _)
SearchAttachments(entries, atts, val) ==
  IF atts = <<>> THEN entries
  ELSE LET att == atts[1]
           doc == NameOr(att.filename, ATTACHMENT)
           next ==
             IF IsPdfNamed(att.filename, att.mimetype)
             THEN AddHits(entries, doc, find_in_pdf(att.data, val, MaxHits), val)
             ELSE LET snip == find_in_text(att.text_preview, val)
                  IN  IF snip.found /\ snip.snippet # <<>>
                      THEN add_prov(entries, doc, 0, snip.snippet, val)
                      ELSE entries
       IN  SearchAttachments(next, Tail(atts), val)

\* Mutant: the attachments are searched before the email PDF.
SearchValueEmailLast(entries, email_pdf_bytes, email_pdf_name, attachments_raw, val) ==
  AddHits(SearchAttachments(entries, attachments_raw, val),
          NameOr(email_pdf_name, EMAIL_PDF),
          find_in_pdf(email_pdf_bytes, val, MaxHits), val)

\* The entries one searched value adds: the email PDF, then the attachments.
SearchValue(entries, email_pdf_bytes, email_pdf_name, attachments_raw, val) ==
  SearchAttachments(
    AddHits(entries, NameOr(email_pdf_name, EMAIL_PDF),
            find_in_pdf(email_pdf_bytes, val, MaxHits), val),
    attachments_raw, val)

\* The loop over the addresses of property_addresses.
RECURSIVE SearchAddresses(_, _, _, _, _)
SearchAddresses(entries, email_pdf_bytes, email_pdf_name, attachments_raw, addrs) ==
  IF addrs = <<>> THEN entries
  ELSE SearchAddresses(
         IF NonBlankStr(addrs[1])
         THEN SearchValue(entries, email_pdf_bytes, email_pdf_name,
                          attachments_raw, addrs[1].v)
         ELSE entries,
         email_pdf_bytes, email_pdf_name, attachments_raw, Tail(addrs))

compute_provenance(email_pdf_bytes, email_pdf_name, attachments_raw, llm_data) ==
  LET addrs == Or(Get(llm_data, "property_addresses"), JList(<<>>))
  IN  [f \in CiteKeys |->
         IF \E i \in 1..Len(ScalarFields) : ScalarFields[i] = f
         THEN LET val == Get(llm_data, f)
              IN  IF NonBlankStr(val)
                  THEN SearchValue(<<>>, email_pdf_bytes, email_pdf_name,
                                   attachments_raw, val.v)
                  ELSE <<>>
         ELSE IF f = "property_addresses" /\ IsList(addrs)
         THEN SearchAddresses(<<>>, email_pdf_bytes, email_pdf_name,
                              attachments_raw, addrs.v)
         ELSE <<>>]

\* doc = c.get("source") or "email_pdf"
CitationDoc(c) == Or(Get(c, "source"), JStr(EMAIL_PDF))

\* Mutant: the "quote" spelling is not accepted.
CitationSnippetNoAlias(c) == Or(Get(c, "snippet"), JStr(<<>>))

\* snippet = c.get("snippet") or c.get("quote") or ""
CitationSnippet(c) == Or(Or(Get(c, "snippet"), Get(c, "quote")), JStr(<<>>))

\* The loop over the citations of one field (upload, lines 528-542):
\* [exc, entries]; exc: snippet.strip() on a value that is no str.
RECURSIVE CiteEntries(_, _)
CiteEntries(sources, entries) ==
  IF sources = <<>> THEN [exc |-> FALSE, entries |-> entries]
  ELSE LET c == sources[1]
       IN  IF ~IsDict(c) THEN CiteEntries(Tail(sources), entries)
           ELSE LET doc == CitationDoc(c)
                    snippet == CitationSnippet(c)
                    match == Get(c, "match")
                IN  IF ~IsStr(snippet) THEN [exc |-> TRUE, entries |-> entries]
                    ELSE IF Strip(snippet.v) # <<>>
                    THEN CiteEntries(Tail(sources),
                                     Append(entries, Entry(doc, 0, snippet.v, match)))
                    ELSE CiteEntries(Tail(sources), entries)

\* The citation-preferred path (upload, lines 524-542) for a citations dict.
CitationProvenance(citations) ==
  LET per == [f \in CiteKeys |->
                LET sources == GetOr(citations, f, Absent)
                IN  IF IsList(sources) THEN CiteEntries(sources.v, <<>>)
                    ELSE [exc |-> FALSE, entries |-> <<>>]]
  IN  [exc |-> \E f \in CiteKeys : per[f].exc,
       prov |-> [f \in CiteKeys |-> per[f].entries]]

\* Mutant: the search runs whatever the citations gave.
FallbackAlways(prov) == TRUE

\* if not provenance (upload, line 544)
FallbackNeeded(prov) == NoProvenance(prov)

\* upload, lines 519-550: [exc, provenance, searched]; exc: an exception
\* leaves the handler (data_obj.get on a value that is no dict, or the
\* citation loop raising).
ResolveProvenance(llm, email_data, email_name, attachment_raw) ==
  IF llm.status # "ok"
  THEN [exc |-> FALSE, provenance |-> EmptyProvenance, searched |-> FALSE]
  ELSE LET data_obj == llm.data
       IN  IF ~IsDict(data_obj)
           THEN [exc |-> TRUE, provenance |-> EmptyProvenance, searched |-> FALSE]
           ELSE LET citations == GetOr(data_obj, "citations", EmptyObj)
                    cp == IF IsDict(citations) THEN CitationProvenance(citations)
                          ELSE [exc |-> FALSE, prov |-> EmptyProvenance]
                IN  IF cp.exc
                    THEN [exc |-> TRUE, provenance |-> EmptyProvenance,
                          searched |-> FALSE]
                    ELSE IF FallbackNeeded(cp.prov)
                    THEN [exc |-> FALSE,
                          provenance |-> compute_provenance(email_data, email_name,
                                                            attachment_raw, data_obj),
                          searched |-> TRUE]
                    ELSE [exc |-> FALSE, provenance |-> cp.prov, searched |-> FALSE]

\* ------------------------------------------------------------ upload

Slots == 1..NReq

NoData == [fmt |-> "text", raw |-> <<>>, size |-> 0]
NoFile == [present |-> FALSE, filename |-> <<>>, mimetype |-> "", data |-> NoData]
File(filename, mimetype, data) ==
  [present |-> TRUE, filename |-> filename, mimetype |-> mimetype, data |-> data]

\* A request: the file under 'email_pdf' (NoFile when there is none), the
\* files under 'attachments', whether files came under other field names,
\* and the form and query values of guess_mode and model (<<>> when not given).
Request(email_pdf, attachments, other_files, form_guess, args_guess, form_model, args_model) ==
  [email_pdf |-> email_pdf, attachments |-> attachments, other_files |-> other_files,
   form_guess_mode |-> form_guess, args_guess_mode |-> args_guess,
   form_model |-> form_model, args_model |-> args_model]

NoRequest == Request(NoFile, <<>>, FALSE, <<>>, <<>>, <<>>, <<>>)
NoResponse == [status_code |-> 0]

\* a or b on str
OrStr(a, b) == IF a # <<>> THEN a ELSE b

TRUE_WORDS ==
  {<<"t", "r", "u", "e">>, <<"1">>, <<"y", "e", "s">>, <<"o", "n">>}

\* if not request.files
NoFiles(rq) ==
  ~rq.email_pdf.present /\ rq.attachments = <<>> /\ ~rq.other_files

\* Mutant: the check for the primary document is missing.
MissingEmailNever(rq) == FALSE

\* if not email_pdf: no such file, or a file part without a filename
\* (a FileStorage is truthy exactly when its filename is non-empty)
MissingEmail(rq) == ~rq.email_pdf.present \/ rq.email_pdf.filename = <<>>

GuessMode(rq) ==
  StrLower(Strip(OrStr(OrStr(rq.form_guess_mode, rq.args_guess_mode),
                       <<"t", "r", "u", "e">>))) \in TRUE_WORDS

RequestedModel(rq) == Strip(OrStr(rq.form_model, rq.args_model))

EmailMeta(rq) ==
  structure_document_json(rq.email_pdf.filename, rq.email_pdf.mimetype,
                          rq.email_pdf.data)

Attachments(rq) ==
  [i \in 1..Len(rq.attachments) |->
     structure_document_json(rq.attachments[i].filename,
                             rq.attachments[i].mimetype, rq.attachments[i].data)]

AttachmentRaw(rq) ==
  [i \in 1..Len(rq.attachments) |->
     [filename |-> rq.attachments[i].filename,
      mimetype |-> rq.attachments[i].mimetype,
      data |-> rq.attachments[i].data,
      text_preview |-> Attachments(rq)[i].text_preview]]

\* The cache key call_llm_for_structured_output derives for the request.
KeyOf(rq) ==
  CacheKey(EmailMeta(rq).text_preview, Attachments(rq), GuessMode(rq),
           RequestedModel(rq))

\* What call_llm_for_structured_output sends to the client for the request
\* when the lookup misses.
SentOf(rq) ==
  CreateArgs(EmailMeta(rq).text_preview, Attachments(rq), GuessMode(rq),
             RequestedModel(rq))

BadRequest(message) == [status_code |-> 400, body |-> [error |-> message]]

\* upload from the return of call_llm_for_structured_output to its own
\* return (lines 517-602): the response and whether compute_provenance ran.
\* An exception that leaves the handler is answered with status 500.  The
\* body's llm_latency_ms, llm_usage and llm_cost repeat llm_parsed and are
\* left out.
Respond(rq, llm) ==
  LET res == ResolveProvenance(llm, rq.email_pdf.data,
                               NameOr(rq.email_pdf.filename, EMAIL_PDF),
                               AttachmentRaw(rq))
  IN  [searched |-> res.searched,
       response |->
         IF res.exc THEN [status_code |-> 500]
         ELSE [status_code |-> 200,
               body |-> [email_document |-> EmailMeta(rq),
                         attachments |-> Attachments(rq),
                         document_count |-> 1 + Len(rq.attachments),
                         llm_parsed |-> llm,
                         provenance |-> res.provenance]]]

Finish(r, rq, llm) ==
  /\ pc' = [pc EXCEPT ![r] = "done"]
  /\ out' = [out EXCEPT ![r] = Respond(rq, llm).response]
  /\ searched' = [searched EXCEPT ![r] = Respond(rq, llm).searched]

Reject(r, message) ==
  /\ pc' = [pc EXCEPT ![r] = "done"]
  /\ out' = [out EXCEPT ![r] = BadRequest(message)]
  /\ UNCHANGED searched

\* upload up to the client call: validation, text extraction, the
\* credential check and the cache lookup of call_llm_for_structured_output;
\* on a miss the request to the client is sent and the thread waits for it.
UploadLookup(r, rq) ==
  /\ pc[r] = "idle"
  /\ req' = [req EXCEPT ![r] = rq]
  /\ UNCHANGED <<api_key, stored_by, snippet_call>>
  /\ IF NoFiles(rq)
     THEN /\ Reject(r, "No files provided")
          /\ UNCHANGED <<LLM_CACHE, invoked, returned_ok>>
     ELSE IF MissingEmail(rq)
     THEN /\ Reject(r, "Missing 'email_pdf' file")
          /\ UNCHANGED <<LLM_CACHE, invoked, returned_ok>>
     ELSE IF ~api_key
     THEN /\ Finish(r, rq, SkippedResult)
          /\ UNCHANGED <<LLM_CACHE, invoked, returned_ok>>
     ELSE IF CacheHit(LLM_CACHE, KeyOf(rq))
     THEN /\ Finish(r, rq, CachedResult(LLM_CACHE, KeyOf(rq)))
          /\ LLM_CACHE' = CacheAfterHit(LLM_CACHE, KeyOf(rq))
          /\ returned_ok' = returned_ok \cup {KeyOf(rq)}
          /\ UNCHANGED invoked
     ELSE /\ pc' = [pc EXCEPT ![r] = "create"]
          /\ invoked' = invoked \cup {KeyOf(rq)}
          /\ UNCHANGED <<LLM_CACHE, out, searched, returned_ok>>

\* upload from the return of client.chat.completions.create: the result is
\* formed, stored when "ok", and the response is built.
UploadComplete(r, outcome) ==
  /\ pc[r] = "create"
  /\ LET rq == req[r]
         result == CallResult(UsedModel(RequestedModel(rq)), outcome)
     IN  /\ LLM_CACHE' = StoreResult(LLM_CACHE, KeyOf(rq), result)
         /\ returned_ok' = IF result.status = "ok"
                           THEN returned_ok \cup {KeyOf(rq)} ELSE returned_ok
         /\ stored_by' =
              IF result.status = "ok"
              THEN [k \in DOMAIN stored_by \cup {KeyOf(rq)} |->
                      IF k = KeyOf(rq)
                      THEN [model |-> UsedModel(RequestedModel(rq)),
                            guess_mode |-> GuessMode(rq)]
                      ELSE stored_by[k]]
              ELSE stored_by
         /\ Finish(r, rq, result)
  /\ UNCHANGED <<api_key, req, invoked,
                 snippet_call>>

\* The response has been sent; the thread is free for the next request.
Release(r) ==
  /\ pc[r] = "done"
  /\ pc' = [pc EXCEPT ![r] = "idle"]
  /\ req' = [req EXCEPT ![r] = NoRequest]
  /\ out' = [out EXCEPT ![r] = NoResponse]
  /\ searched' = [searched EXCEPT ![r] = FALSE]
  /\ UNCHANGED <<LLM_CACHE, api_key, invoked, returned_ok, stored_by, snippet_call>>

\* The environment's OPENAI_API_KEY is set or removed (as the tests'
\* monkeypatch.setenv does); call_llm_for_structured_output reads it anew
\* at every call.
SetEnv(b) ==
  /\ api_key # b
  /\ api_key' = b
  /\ UNCHANGED <<LLM_CACHE, pc, req, out, searched, invoked, returned_ok,
                 stored_by, snippet_call>>

EmptyCache == [k \in {} |-> SkippedResult]

\* No call of _make_snippet under examination.
NoSnippet ==
  [text |-> <<>>, start |-> 0, end |-> 0, made |-> FALSE, snippet |-> <<>>]

\* _make_snippet is called with the arguments held in snippet_call, context
\* taking its default.
MakeSnippet ==
  /\ ~snippet_call.made
  /\ snippet_call' =
       [snippet_call EXCEPT
          !.made = TRUE,
          !.snippet = _make_snippet(snippet_call.text, snippet_call.start,
                                    snippet_call.end, Context)]
  /\ UNCHANGED <<LLM_CACHE, api_key, pc, req, out, searched, invoked, returned_ok,
                 stored_by>>

\* The server after start-up: no request, nothing cached.
InitServer ==
  /\ stored_by = [k \in {} |-> [model |-> <<>>, guess_mode |-> TRUE]]
  /\ LLM_CACHE = EmptyCache
  /\ api_key \in BOOLEAN
  /\ pc = [r \in Slots |-> "idle"]
  /\ req = [r \in Slots |-> NoRequest]
  /\ out = [r \in Slots |-> NoResponse]
  /\ searched = [r \in Slots |-> FALSE]
  /\ invoked = {}
  /\ returned_ok = {}

Init == InitServer /\ snippet_call = NoSnippet

\* ------------------------------------------------------------ inputs

Page(text) == [ok |-> TRUE, text |-> text]
FailingPage == [ok |-> FALSE, text |-> <<>>]
PdfData(pages, size) == [fmt |-> "pdf", raw |-> pages, size |-> size]
XlsxData(sheets, size) == [fmt |-> "xlsx", raw |-> sheets, size |-> size]
TextData(raw) == [fmt |-> "text", raw |-> raw, size |-> Len(raw)]

E_PDF == <<"e", ".", "p", "d", "f">>
E_TXT == <<"e", ".", "t", "x", "t">>
P_CSV == <<"p", ".", "c", "s", "v">>

\* A JSON object of the extraction schema; Absent for a key it does not hold.
Data(broker_name, brokerage, property_addresses, citations) ==
  JObj([broker_name |-> broker_name, broker_email |-> Absent,
        brokerage |-> brokerage, complete_brokerage_address |-> Absent,
        property_addresses |-> property_addresses, citations |-> citations])

Citation(source, snippet, quote, match) ==
  JObj([source |-> source, snippet |-> snippet, quote |-> quote, match |-> match])

Citations(broker_name, property_addresses, other) ==
  JObj([f \in CiteKeys |->
          CASE f = "broker_name" -> broker_name
            [] f = "property_addresses" -> property_addresses
            [] f = "other" -> other
            [] OTHER -> Absent])

Json(j) == [c |-> "json", j |-> j]
Raise(message, latency) == [o |-> "raise", message |-> message, latency |-> latency]
Resp(content, total_tokens, latency) ==
  [o |-> "resp", content |-> content, total_tokens |-> total_tokens,
   latency |-> latency]

EmailPdf == File(E_PDF, PDF_MIME, PdfData(<<Page(<<"a", "b">>)>>, 300))
CsvFile == File(P_CSV, "text/csv", TextData(<<"b", "\n", "a", "b">>))

\* The requests of Spec: without files, with attachments only, and three
\* with the same email PDF that differ in guess_mode (RqOn has the cache key
\* of RqBase).
RqOnlyAttachments == Request(NoFile, <<CsvFile>>, FALSE, <<>>, <<>>, <<>>, <<>>)
RqBase == Request(EmailPdf, <<>>, FALSE, <<>>, <<>>, <<>>, <<>>)
RqOn == Request(EmailPdf, <<>>, FALSE, <<>>, <<" ", "O", "N">>, <<>>, <<>>)
RqStrict ==
  Request(EmailPdf, <<>>, FALSE, <<"f", "a", "l", "s", "e">>, <<>>, <<>>, <<>>)

CacheRequests == {NoRequest, RqOnlyAttachments, RqBase, RqOn, RqStrict}

DataPlain == Data(JStr(<<"a", "b">>), Absent, JList(<<JStr(<<"b">>)>>), Absent)
DataCited ==
  Data(JStr(<<"a", "b">>), Absent, Absent,
       Citations(JList(<<Citation(JStr(EMAIL_PDF), JStr(<<"a", "b">>), Absent,
                                  JStr(<<"a", "b">>))>>),
                 Absent, Absent))

CacheOutcomes ==
  {Raise("provider down", 3),
   Resp(Json(DataPlain), 0, 5),
   Resp(Json(DataCited), 12, 9)}

\* The requests of SpecProv: a primary document of each kind with each list
\* of attachments.
S_PDF == <<"s", ".", "P", "D", "F">>
T_XLSX == <<"t", ".", "x", "l", "s", "x">>

EmailText == File(E_TXT, "text/plain", TextData(<<"a", "b">>))
EmailPages ==
  File(E_PDF, "Application/PDF",
       PdfData(<<FailingPage, Page(<<"b", " ">>), Page(<<"x", "A", "B">>)>>, 400))
EmailBroken == File(E_PDF, PDF_MIME, TextData(<<"a", "b", "<ff>">>))

PdfFile == File(S_PDF, "", PdfData(<<Page(<<"a">>), Page(<<"a", "b", "\n", "b">>)>>, 200))
XlsxFile ==
  File(T_XLSX, XLSX_MIME,
       XlsxData(<<[title |-> <<"t">>, rows |-> <<<<<<"a", "b">>, <<"b">>>>, <<>>>>]>>, 500))

ProvEmails == {EmailPdf, EmailText, EmailPages, EmailBroken}
ProvAttachments ==
  {<<>>, <<CsvFile>>, <<PdfFile>>, <<XlsxFile>>, <<PdfFile, CsvFile>>}

ProvRequests ==
  {Request(e, a, FALSE, <<>>, <<>>, <<>>, <<>>) : e \in ProvEmails, a \in ProvAttachments}

\* The requests explored with every list of citations.
CiteRequests ==
  {Request(EmailPdf, <<CsvFile>>, FALSE, <<>>, <<>>, <<>>, <<>>),
   Request(EmailText, <<>>, FALSE, <<>>, <<>>, <<>>, <<>>)}

\* Longest list of citations the model gives a field.
MaxCites == 2

S_AB == <<"a", "b">>

\* The members of a citation list: citations with and without source,
\* snippet, quote and match, blank and non-string members among them.
Cites ==
  {Citation(JStr(P_CSV), JStr(S_AB), Absent, JStr(S_AB)),
   Citation(Absent, Absent, JStr(<<"q">>), Absent),
   Citation(JStr(<<" ">>), JStr(<<" ">>), JStr(<<"q">>), JStr(<<" ">>)),
   Citation(JStr(<<>>), JStr(<<>>), Absent, None),
   Citation(JStr(<<" ">>), JStr(<<"s", "\n">>), Absent, JNum(1)),
   Citation(JNum(7), None, JStr(<<"q", "q">>), JStr(S_AB)),
   Citation(JStr(EMAIL_PDF), JNum(5), Absent, Absent),
   JStr(<<"x">>)}

RECURSIVE SeqsUpTo(_, _)
SeqsUpTo(S, n) ==
  IF n = 0 THEN {<<>>}
  ELSE LET shorter == SeqsUpTo(S, n - 1)
       IN  shorter \cup {Append(l, x) : l \in shorter, x \in S}

CiteLists ==
  {JList(l) : l \in SeqsUpTo(Cites, MaxCites)} \cup {Absent, None, JStr(<<"x">>)}

OneCite == JList(<<Citation(JStr(P_CSV), JStr(<<"b">>), Absent, JStr(<<"b">>))>>)

\* Results whose citations vary.
CitedData ==
  {Data(bn, Absent, pa, Citations(l1, l2, l3)) :
     bn \in {Absent, None, JStr(S_AB)},
     pa \in {Absent, JList(<<JStr(<<"b">>)>>)},
     l1 \in CiteLists,
     l2 \in {Absent, OneCite},
     l3 \in {Absent, OneCite}}

\* Results without a usable citation, whose field values vary.
UncitedData ==
  {Data(bn, br, pa, cit) :
     bn \in {Absent, None, JStr(<<" ">>), JStr(S_AB), JStr(<<"z">>), JNum(5)},
     br \in {Absent, JStr(<<"B">>)},
     pa \in {Absent, None, JList(<<>>), JList(<<JStr(S_AB), JStr(<<"b">>)>>),
             JList(<<None, JStr(<<" ">>), JStr(<<"b">>)>>), JStr(S_AB)},
     cit \in {Absent, None, JList(<<>>), Citations(Absent, Absent, Absent),
              Citations(JList(<<>>), Absent, Absent),
              Citations(JList(<<Citation(JStr(EMAIL_PDF), JStr(<<" ">>), Absent,
                                         JStr(S_AB))>>), Absent, Absent)}}

\* Responses that are no JSON object, or no JSON at all, and a failure.
OtherOutcomes ==
  {Resp(Json(None), 0, 5), Resp(Json(JList(<<>>)), 0, 5),
   Resp(Json(JStr(S_AB)), 0, 5), Resp(Json(JNum(1)), 0, 5),
   Resp([c |-> "empty"], 0, 5),
   Resp([c |-> "prose", text |-> S_AB], 0, 5),
   Resp([c |-> "wrapped", j |-> DataPlain], 7, 5),
   Resp([c |-> "broken"], 0, 5),
   Raise("timeout", 3)}

UncitedOutcomes == {Resp(Json(d), 0, 5) : d \in UncitedData} \cup OtherOutcomes
CitedOutcomes == {Resp(Json(d), 0, 5) : d \in CitedData}
AllOutcomes == UncitedOutcomes \cup CitedOutcomes

ProvOutcomes(rq) == IF rq \in CiteRequests THEN AllOutcomes ELSE UncitedOutcomes

\* The requests of SpecKey: one email PDF with every configuration (model
\* id, guess mode) and with attachments whose previews differ before and
\* after the length sent to the model.
Rep(c, n) == [i \in 1..n |-> c]

M == <<"m">>
A_TXT == <<"a", ".", "t", "x", "t">>

RqModel == Request(EmailPdf, <<>>, FALSE, <<>>, <<>>, M, <<>>)
RqModelArgs == Request(EmailPdf, <<>>, FALSE, <<>>, <<>>, <<>>, <<" ", "m", " ">>)
RqModelStrict ==
  Request(EmailPdf, <<>>, FALSE, <<"n", "o">>, <<>>, M, <<" ", "m", " ">>)
RqGpt5 == Request(EmailPdf, <<>>, FALSE, <<>>, <<>>, GPT_5, <<>>)

\* A text attachment: n times "a", then the character last.
LongText(n, last) ==
  File(A_TXT, "text/plain", TextData(Rep("a", n) \o <<last>>))

\* A workbook of one sheet with one cell: "a", n blanks, then last.
LongSheet(n, last) ==
  File(T_XLSX, XLSX_MIME,
       XlsxData(<<[title |-> <<"t">>,
                   rows |-> <<<<<<"a">> \o Rep(" ", n) \o <<last>>>>>>]>>, 9000))

RqAttached(file) == Request(EmailPdf, <<file>>, FALSE, <<>>, <<>>, <<>>, <<>>)

KeyFiles ==
  {LongText(n, c) : n \in {SummaryLimit - 1, SummaryLimit}, c \in {"x", "y"}}
  \cup {LongSheet(n, c) : n \in {SummaryLimit, XlsxSummaryLimit}, c \in {"x", "y"}}

KeyRequests ==
  {RqBase, RqOn, RqStrict, RqModel, RqModelArgs, RqModelStrict, RqGpt5}
  \cup {RqAttached(f) : f \in KeyFiles}

KeyOutcomes == {Raise("provider down", 3), Resp(Json(DataPlain), 0, 5)}

\* Longest text given to _make_snippet.
MaxTextLen == 244

\* A text of n characters with a newline at every fifth.
LineText(n) == [i \in 1..n |-> IF i % 5 = 0 THEN "\n" ELSE "a"]

\* Whether p is within d of q.
Near(p, q, d) == p - q <= d /\ q - p <= d

\* The lengths of the texts: the shortest, those about the width of one
\* context, and those of two contexts and more.
SnippetLens ==
  {n \in 1..MaxTextLen : n <= 3 \/ Near(n, Context, 2) \/ n >= 2 * Context}

\* The offsets of a text of n characters that lie at its ends or about one
\* context from them.
Offsets(n) ==
  {p \in 0..n : p <= 2 \/ n - p <= 2 \/ Near(p, Context, 1) \/ Near(n - p, Context, 1)}

\* The calls of _make_snippet: every text with every range start < end of
\* its offsets (the searched term is never empty).
SnippetCalls ==
  UNION {{[text |-> LineText(n), start |-> p[1], end |-> p[2], made |-> FALSE,
           snippet |-> <<>>] : p \in {q \in Offsets(n) \X Offsets(n) : q[1] < q[2]}}
         : n \in SnippetLens}

\* --------------------------------------------------------- specification

Next ==
  \/ \E r \in Slots, rq \in CacheRequests : UploadLookup(r, rq)
  \/ \E r \in Slots, o \in CacheOutcomes : UploadComplete(r, o)
  \/ \E r \in Slots : Release(r)
  \/ \E b \in BOOLEAN : SetEnv(b)

\* Requests served concurrently by NReq threads over one LLM_CACHE.
Spec == Init /\ [][Next]_vars

\* Spec with the client call of every thread returning: create() returns or
\* raises (a timeout is the client's to raise), and no thread waits for
\* another, the handler taking no lock.
SpecFair ==
  Spec /\ \A r \in Slots : WF_vars(\E o \in CacheOutcomes : UploadComplete(r, o))

NextProv ==
  \/ \E rq \in ProvRequests : UploadLookup(1, rq)
  \/ pc[1] = "create" /\ \E o \in ProvOutcomes(req[1]) : UploadComplete(1, o)

\* One upload, over every document set and every LLM response of the model.
SpecProv == Init /\ [][NextProv]_vars

\* The two threads whose calls are compared.
KeySlots == {1, NReq}

NextKey ==
  \/ \E r \in KeySlots, rq \in KeyRequests : UploadLookup(r, rq)
  \/ \E r \in KeySlots, o \in KeyOutcomes : UploadComplete(r, o)

\* One request on each of two threads, over the configurations and the long
\* attachments.
SpecKey == Init /\ [][NextKey]_vars

InitSnippet == InitServer /\ snippet_call \in SnippetCalls

\* One call of _make_snippet for every text and match range of the model.
SpecSnippet == InitSnippet /\ [][MakeSnippet]_vars

\* ------------------------------------------------------------ claims

\* The step in which slot r starts serving a request (UploadLookup).
Starts(r) == pc[r] = "idle" /\ pc'[r] # "idle"

\* The step in which slot r's request ends with a response.
Ends(r) == pc[r] # "done" /\ pc'[r] = "done"

\* The LLM status of a finished request, "none" when the response has no body.
LlmStatus(r) ==
  IF out[r].status_code = 200 THEN out[r].body.llm_parsed.status ELSE "none"

\* C1: every value stored in LLM_CACHE has status "ok", and a request whose
\* call ends with status "error" or "skipped" leaves LLM_CACHE as it was.
C1_OnlyOkCached ==
  /\ [](\A k \in DOMAIN LLM_CACHE : LLM_CACHE[k].status = "ok")
  /\ [][\A r \in Slots :
          (/\ Ends(r)
           /\ out'[r].status_code = 200
           /\ out'[r].body.llm_parsed.status \in {"error", "skipped"})
          => LLM_CACHE' = LLM_CACHE]_vars

\* C1 witness: an entry is cached while one finished request was skipped
\* for want of a credential and another ended in an error.
C1_Witness ==
  /\ DOMAIN LLM_CACHE # {}
  /\ \E r1, r2 \in Slots :
       /\ pc[r1] = "done" /\ LlmStatus(r1) = "error"
       /\ pc[r2] = "done" /\ LlmStatus(r2) = "skipped"

\* C2 (as stated): the client is invoked for a cache key at most once: no
\* request invokes it for a key it was invoked for before.
C2_AtMostOnce ==
  [][\A r \in Slots :
       (Starts(r) /\ pc'[r] = "create") => KeyOf(req'[r]) \notin invoked]_vars

\* C2 (amended): once a call has returned status "ok" for a cache key, no
\* request that starts afterwards invokes the client for that key.
C2_NoInvocationAfterOk ==
  [][\A r \in Slots :
       (Starts(r) /\ pc'[r] = "create") => KeyOf(req'[r]) \notin returned_ok]_vars

\* C2 witness: the client was invoked for a key, a result for it is stored,
\* and a request with that key has been answered while no call is in flight.
C2_Witness ==
  \E r \in Slots :
    /\ pc[r] = "done" /\ LlmStatus(r) = "ok"
    /\ KeyOf(req[r]) \in invoked \cap returned_ok
    /\ "cached" \in DOMAIN out[r].body.llm_parsed
    /\ \A q \in Slots : pc[q] # "create"

\* C3: a request that starts with a credential configured and a cache key
\* for which a call has returned "ok" is answered at once with the stored
\* status, model and data and cached = TRUE, and the client is not invoked.
C3_HitReturnsStored ==
  [][\A r \in Slots :
       (/\ Starts(r)
        /\ api_key
        /\ req'[r].email_pdf.present
        /\ KeyOf(req'[r]) \in returned_ok)
       => /\ pc'[r] = "done"
          /\ invoked' = invoked
          /\ LLM_CACHE' = LLM_CACHE
          /\ KeyOf(req'[r]) \in DOMAIN LLM_CACHE
          /\ out'[r].status_code = 200
          /\ LET got == out'[r].body.llm_parsed
                 stored == LLM_CACHE[KeyOf(req'[r])]
             IN  /\ got.status = stored.status
                 /\ got.model = stored.model
                 /\ got.data = stored.data
                 /\ "cached" \in DOMAIN got
                 /\ got.cached = TRUE]_vars

\* C3 witness: two finished requests whose form values differ have the same
\* cache key; one obtained the result from the client, the other from the
\* cache.
C3_Witness ==
  \E r1, r2 \in Slots :
    /\ pc[r1] = "done" /\ pc[r2] = "done"
    /\ req[r1] # req[r2]
    /\ KeyOf(req[r1]) = KeyOf(req[r2])
    /\ LlmStatus(r1) = "ok" /\ "cached" \notin DOMAIN out[r1].body.llm_parsed
    /\ LlmStatus(r2) = "ok" /\ "cached" \in DOMAIN out[r2].body.llm_parsed
    /\ out[r2].body.llm_parsed.data = out[r1].body.llm_parsed.data

RaiseOutcomes == {o \in CacheOutcomes : o.o = "raise"}

\* C4 (as stated): when the client raises, the upload answers 200 with
\* llm_parsed.status "error" and a message, and afterwards LLM_CACHE holds no
\* entry for the request's cache key.
C4_ErrorLeavesNoEntry ==
  [][\A r \in Slots, o \in RaiseOutcomes :
       UploadComplete(r, o)
       => /\ out'[r].status_code = 200
          /\ out'[r].body.llm_parsed.status = "error"
          /\ "message" \in DOMAIN out'[r].body.llm_parsed
          /\ KeyOf(req[r]) \notin DOMAIN LLM_CACHE']_vars

\* C4 (amended): when the client raises, the upload answers 200 with
\* llm_parsed.status "error" and a message and leaves LLM_CACHE unchanged;
\* and a request that starts with a credential while LLM_CACHE holds no entry
\* for its cache key invokes the client.
C4_ErrorNotCached ==
  /\ [][\A r \in Slots, o \in RaiseOutcomes :
          UploadComplete(r, o)
          => /\ out'[r].status_code = 200
             /\ out'[r].body.llm_parsed.status = "error"
             /\ "message" \in DOMAIN out'[r].body.llm_parsed
             /\ LLM_CACHE' = LLM_CACHE]_vars
  /\ [][\A r \in Slots :
          (/\ Starts(r)
           /\ api_key
           /\ req'[r].email_pdf.present
           /\ KeyOf(req'[r]) \notin DOMAIN LLM_CACHE)
          => /\ pc'[r] = "create"
             /\ KeyOf(req'[r]) \in invoked']_vars

\* C4 witness: a request ended in an error, no entry is stored for its key,
\* and the client has been invoked again for an identical request.
C4_Witness ==
  \E r1, r2 \in Slots :
    /\ pc[r1] = "done" /\ LlmStatus(r1) = "error"
    /\ "message" \in DOMAIN out[r1].body.llm_parsed
    /\ KeyOf(req[r1]) \notin DOMAIN LLM_CACHE
    /\ pc[r2] = "create" /\ req[r2] = req[r1]

\* C5: a request without an 'email_pdf' file (no files at all, or only
\* 'attachments') is answered 400 at once, LLM_CACHE is unchanged and the
\* client is not invoked.
C5_MissingEmailRejected ==
  [][\A r \in Slots :
       (Starts(r) /\ ~req'[r].email_pdf.present)
       => /\ pc'[r] = "done"
          /\ out'[r].status_code = 400
          /\ LLM_CACHE' = LLM_CACHE
          /\ invoked' = invoked
          /\ returned_ok' = returned_ok]_vars

\* C5 witness: with an entry in the cache, a request with attachments only
\* and a request without files have both been answered 400.
C5_Witness ==
  /\ DOMAIN LLM_CACHE # {}
  /\ \E r1, r2 \in Slots :
       /\ pc[r1] = "done" /\ req[r1] = RqOnlyAttachments /\ out[r1].status_code = 400
       /\ pc[r2] = "done" /\ req[r2] = NoRequest /\ out[r2].status_code = 400

\* The data and the provenance map of a finished request answered 200
\* with an "ok" LLM result.
DataOf(r) == out[r].body.llm_parsed.data
ProvOf(r) == out[r].body.provenance
Resolved(r) == pc[r] = "done" /\ LlmStatus(r) = "ok"

\* The citations object of a data object, EmptyObj when it is no object.
CitationsOf(data) ==
  IF IsDict(data) /\ IsDict(Get(data, "citations")) THEN Get(data, "citations")
  ELSE EmptyObj

\* data.citations holds a field with a non-empty citation list
HasCitationList(data) ==
  \E f \in CiteKeys :
    LET l == Get(CitationsOf(data), f) IN IsList(l) /\ l.v # <<>>

\* The text a citation object gives as its snippet: its snippet, or its
\* quote when the snippet is absent, null or empty.
SnippetText(c) ==
  IF Truthy(Get(c, "snippet")) THEN Get(c, "snippet")
  ELSE IF Truthy(Get(c, "quote")) THEN Get(c, "quote")
  ELSE JStr(<<>>)

UsableCitation(c) == IsDict(c) /\ NonBlankStr(SnippetText(c))

\* data.citations holds a citation object with a non-blank snippet text
HasUsableCitation(data) ==
  \E f \in CiteKeys :
    LET l == Get(CitationsOf(data), f)
    IN  IsList(l) /\ \E i \in 1..Len(l.v) : UsableCitation(l.v[i])

\* C6 (as stated): with an "ok" result whose data.citations holds a field
\* with a non-empty citation list, the search fallback is not invoked.
C6_NoSearchWhenCitationList ==
  \A r \in Slots :
    (Resolved(r) /\ HasCitationList(DataOf(r))) => ~searched[r]

\* C6 (amended): with an "ok" result whose data.citations holds a citation
\* object with a non-blank snippet (or quote), the search fallback is not
\* invoked.
C6_NoSearchWhenUsableCitation ==
  \A r \in Slots :
    (Resolved(r) /\ HasUsableCitation(DataOf(r))) => ~searched[r]

\* C6 witness: a usable citation for one field was taken, no search ran,
\* and broker_name, which has no citation and whose value is in the email
\* PDF, has no entry.
C6_Witness ==
  \E r \in Slots :
    /\ Resolved(r) /\ HasUsableCitation(DataOf(r)) /\ ~searched[r]
    /\ req[r].email_pdf = EmailPdf
    /\ Get(DataOf(r), "broker_name") = JStr(S_AB)
    /\ ProvOf(r)["broker_name"] = <<>>
    /\ ProvOf(r)["property_addresses"] # <<>>

\* Whether a JSON value is absent, null or a blank string.
Blank(j) == ~Truthy(j) \/ (IsStr(j) /\ Strip(j.v) = <<>>)

\* The citation objects of a list that have a non-blank "snippet".
WithSnippet(l) ==
  SelectSeq(l, LAMBDA c : IsDict(c) /\ NonBlankStr(Get(c, "snippet")))

\* The citation objects of a list that have a non-blank snippet text.
WithSnippetText(l) == SelectSeq(l, LAMBDA c : UsableCitation(c))

ListOf(data, f) ==
  LET l == Get(CitationsOf(data), f) IN IF IsList(l) THEN l.v ELSE <<>>

\* C7 (as stated): on the citation-preferred path provenance[field] is, in
\* citation order, one entry per citation with a non-blank snippet: page
\* None, the citation's snippet, and its source or "email_pdf" when the
\* source is blank.
C7_MirrorsSnippets ==
  \A r \in Slots :
    (Resolved(r) /\ ~searched[r]) =>
      \A f \in CiteKeys :
        LET cited == WithSnippet(ListOf(DataOf(r), f))
            got == ProvOf(r)[f]
        IN  /\ Len(got) = Len(cited)
            /\ \A i \in 1..Len(cited) :
                 /\ got[i].page = 0
                 /\ got[i].snippet = Get(cited[i], "snippet").v
                 /\ got[i].doc = IF Blank(Get(cited[i], "source"))
                                 THEN JStr(EMAIL_PDF)
                                 ELSE Get(cited[i], "source")

\* C7 (amended): on the citation-preferred path provenance[field] is, in
\* citation order, one entry per citation object whose snippet text (its
\* snippet, or its quote when the snippet is absent, null or empty) is a
\* non-blank string: page None, that text, and the citation's source, or
\* "email_pdf" when the source is absent, null or empty.
C7_MirrorsCitations ==
  \A r \in Slots :
    (Resolved(r) /\ ~searched[r]) =>
      \A f \in CiteKeys :
        LET cited == WithSnippetText(ListOf(DataOf(r), f))
            got == ProvOf(r)[f]
        IN  /\ Len(got) = Len(cited)
            /\ \A i \in 1..Len(cited) :
                 /\ got[i].page = 0
                 /\ got[i].snippet = SnippetText(cited[i]).v
                 /\ got[i].doc = IF Truthy(Get(cited[i], "source"))
                                 THEN Get(cited[i], "source")
                                 ELSE JStr(EMAIL_PDF)

\* C7 witness: a field with two citations, the first with a source and a
\* snippet, the second with a quote only, has their two entries in that
\* order.
C7_Witness ==
  \E r \in Slots :
    /\ Resolved(r) /\ ~searched[r]
    /\ Len(ListOf(DataOf(r), "broker_name")) = 2
    /\ Len(ProvOf(r)["broker_name"]) = 2
    /\ ProvOf(r)["broker_name"][1].doc = JStr(P_CSV)
    /\ ProvOf(r)["broker_name"][2].doc = JStr(EMAIL_PDF)
    /\ ProvOf(r)["broker_name"][2].snippet = <<"q">>

\* Whether data.citations is absent, null or without any key.
NoCitations(data) == ~Truthy(Get(data, "citations"))

\* Whether val occurs verbatim in the text of the primary document or of an
\* attachment of a finished request.
InDocuments(r, val) ==
  \/ Find(out[r].body.email_document.text_preview, val) # -1
  \/ \E i \in 1..Len(out[r].body.attachments) :
       Find(out[r].body.attachments[i].text_preview, val) # -1

\* C8: with an "ok" result and empty or absent citations, every scalar
\* field whose value is a non-blank string found verbatim in a document, and
\* property_addresses when one of its addresses is, has a provenance entry.
C8_FallbackComplete ==
  \A r \in Slots :
    (Resolved(r) /\ NoCitations(DataOf(r))) =>
      /\ \A i \in 1..Len(ScalarFields) :
           LET val == Get(DataOf(r), ScalarFields[i])
           IN  (NonBlankStr(val) /\ InDocuments(r, val.v))
               => ProvOf(r)[ScalarFields[i]] # <<>>
      /\ LET addrs == Get(DataOf(r), "property_addresses")
         IN  (/\ IsList(addrs)
              /\ \E i \in 1..Len(addrs.v) :
                   NonBlankStr(addrs.v[i]) /\ InDocuments(r, addrs.v[i].v))
             => ProvOf(r)["property_addresses"] # <<>>

\* C9: a field whose value is null, blank or absent has no provenance
\* entries.
C9_NoEntriesForBlankField ==
  \A r \in Slots :
    Resolved(r) =>
      \A f \in FieldKeys : Blank(Get(DataOf(r), f)) => ProvOf(r)[f] = <<>>

\* C10: every upload that contains the primary document ends with status
\* 200.
C10_AlwaysOk ==
  \A r \in Slots :
    (pc[r] = "done" /\ req[r].email_pdf.present) => out[r].status_code = 200

\* A slot whose request reached call_llm_for_structured_output.
Called(r) == pc[r] # "idle" /\ ~NoFiles(req[r]) /\ ~MissingEmail(req[r])

\* The model id and the guess-mode flag of a request's call.
ConfigOf(rq) ==
  [model |-> UsedModel(RequestedModel(rq)), guess_mode |-> GuessMode(rq)]

\* The step in which slot r's request is answered from the cache.
HitStep(r) ==
  /\ Starts(r) /\ pc'[r] = "done"
  /\ out'[r].status_code = 200
  /\ "cached" \in DOMAIN out'[r].body.llm_parsed

\* C11: a call is answered from the cache only by an entry that a call with
\* the same model id and the same guess-mode flag stored, and two calls that
\* differ in the model id or in the guess-mode flag have different cache keys.
C11_NoHitAcrossConfigurations ==
  /\ [][\A r \in Slots :
          HitStep(r)
          => /\ KeyOf(req'[r]) \in DOMAIN stored_by
             /\ stored_by[KeyOf(req'[r])] = ConfigOf(req'[r])]_vars
  /\ [](\A r1, r2 \in Slots :
          (Called(r1) /\ Called(r2) /\ ConfigOf(req[r1]) # ConfigOf(req[r2]))
          => KeyOf(req[r1]) # KeyOf(req[r2]))

\* C11 witness: two finished requests with the same documents and the same
\* guess mode, whose model ids differ, each obtained its result from the
\* client, and both results are stored.
C11_Witness ==
  \E r1, r2 \in Slots :
    /\ Resolved(r1) /\ Resolved(r2)
    /\ req[r1].email_pdf = req[r2].email_pdf
    /\ req[r1].attachments = req[r2].attachments
    /\ GuessMode(req[r1]) = GuessMode(req[r2])
    /\ ConfigOf(req[r1]).model # ConfigOf(req[r2]).model
    /\ "cached" \notin DOMAIN out[r1].body.llm_parsed
    /\ "cached" \notin DOMAIN out[r2].body.llm_parsed
    /\ {KeyOf(req[r1]), KeyOf(req[r2])} \subseteq DOMAIN LLM_CACHE

\* C17: two calls have the same cache key exactly when what they would
\* send to the client (email text, attachment summaries cut to 4000
\* characters for spreadsheets and 1000 for others, instructions, guess mode,
\* model) is the same.
C17_KeyIsWhatIsSent ==
  \A r1, r2 \in Slots :
    (Called(r1) /\ Called(r2))
    => (KeyOf(req[r1]) = KeyOf(req[r2]) <=> SentOf(req[r1]) = SentOf(req[r2]))

\* C17 witness: two requests whose spreadsheet attachments differ only
\* after the first 4000 characters of the preview have one cache key, and
\* the second is answered from the cache with the result of the first.
C17_Witness ==
  \E r1, r2 \in Slots :
    /\ Resolved(r1) /\ Resolved(r2)
    /\ Len(req[r1].attachments) = 1 /\ Len(req[r2].attachments) = 1
    /\ IsXlsxNamed(req[r1].attachments[1].filename, req[r1].attachments[1].mimetype)
    /\ Attachments(req[r1])[1].text_preview # Attachments(req[r2])[1].text_preview
    /\ Prefix(Attachments(req[r1])[1].text_preview, XlsxSummaryLimit)
         = Prefix(Attachments(req[r2])[1].text_preview, XlsxSummaryLimit)
    /\ KeyOf(req[r1]) = KeyOf(req[r2])
    /\ "cached" \notin DOMAIN out[r1].body.llm_parsed
    /\ "cached" \in DOMAIN out[r2].body.llm_parsed

\* Whether a snippet begins, or ends, with the ellipsis.
LeadingEllipsis(s) == s # <<>> /\ <<s[1]>> = ELLIPSIS
TrailingEllipsis(s) == s # <<>> /\ <<s[Len(s)]>> = ELLIPSIS

\* C12 (as stated): the snippet has no leading ellipsis when start = 0, no
\* trailing ellipsis when end = len(text), and both when start > 0 and
\* end < len(text).
C12_EllipsisByPosition ==
  snippet_call.made =>
    LET c == snippet_call
    IN  /\ c.start = 0 => ~LeadingEllipsis(c.snippet)
        /\ c.end = Len(c.text) => ~TrailingEllipsis(c.snippet)
        /\ (c.start > 0 /\ c.end < Len(c.text))
           => (LeadingEllipsis(c.snippet) /\ TrailingEllipsis(c.snippet))

\* C12 (amended): the snippet has a leading ellipsis exactly when
\* start > context and a trailing ellipsis exactly when
\* end + context < len(text); so none at the left when start = 0 and none at
\* the right when end = len(text).
C12_EllipsisByWindow ==
  snippet_call.made =>
    LET c == snippet_call
    IN  /\ LeadingEllipsis(c.snippet) <=> c.start > Context
        /\ TrailingEllipsis(c.snippet) <=> c.end + Context < Len(c.text)
        /\ c.start = 0 => ~LeadingEllipsis(c.snippet)
        /\ c.end = Len(c.text) => ~TrailingEllipsis(c.snippet)

\* C12 witness: a match more than one context from both ends of the text
\* gives a one-line snippet of the match, a context on each side and the two
\* ellipses.
C12_Witness ==
  LET c == snippet_call
  IN  /\ c.made
      /\ c.start > Context /\ c.end + Context < Len(c.text) /\ c.start < c.end
      /\ LeadingEllipsis(c.snippet) /\ TrailingEllipsis(c.snippet)
      /\ Len(c.snippet) = 2 * Context + (c.end - c.start) + 2
      /\ \A i \in 1..Len(c.snippet) : c.snippet[i] # "\n"

\* The responses whose content is not valid JSON.
MalformedOutcomes ==
  {o \in OtherOutcomes :
     o.o = "resp" /\ o.content.c \in {"wrapped", "broken", "prose"}}

ScanRank(r, doc) ==
  LET atts == {i \in 1..Len(req[r].attachments) :
                 doc = JStr(NameOr(req[r].attachments[i].filename, ATTACHMENT))}
  IN  IF doc = JStr(NameOr(req[r].email_pdf.filename, EMAIL_PDF)) THEN 0
      ELSE IF atts = {} THEN -1
      ELSE Min(atts)

\* C14 (as stated): in the map the search fallback builds, every field's
\* entries are in scan order: entries of the email document before entries
\* of attachments, attachments in upload order.
C14_ScanOrder ==
  \A r \in Slots :
    (Resolved(r) /\ searched[r]) =>
      \A f \in FieldKeys :
        \A i, j \in 1..Len(ProvOf(r)[f]) :
          i < j => /\ ScanRank(r, ProvOf(r)[f][i].doc) >= 0
                   /\ ScanRank(r, ProvOf(r)[f][i].doc) <= ScanRank(r, ProvOf(r)[f][j].doc)

\* The values the fallback searches for a field: the field's value when it
\* is a non-blank string, the non-blank strings of property_addresses.
SearchedValues(data, f) ==
  LET val == Get(data, f)
      texts(l) == [i \in 1..Len(l) |-> l[i].v]
  IN  IF f = "property_addresses"
      THEN IF IsList(val) THEN texts(SelectSeq(val.v, NonBlankStr)) ELSE <<>>
      ELSE IF NonBlankStr(val) THEN <<val.v>> ELSE <<>>

\* Whether entry i of a field continues the run of entry i - 1: the same
\* searched value, found in a document later in the scan.
SameRun(r, got, i) ==
  /\ i > 1
  /\ got[i].match = got[i - 1].match
  /\ ScanRank(r, got[i - 1].doc) < ScanRank(r, got[i].doc)

\* The searched values of the runs of a field's entries, in order.
RunMatches(r, got) ==
  LET firsts == SelectSeq([i \in 1..Len(got) |-> i], LAMBDA i : ~SameRun(r, got, i))
  IN  [n \in 1..Len(firsts) |-> got[firsts[n]].match]

\* Whether a is b with some members left out.
RECURSIVE IsSubsequence(_, _)
IsSubsequence(a, b) ==
  IF a = <<>> THEN TRUE
  ELSE IF b = <<>> THEN FALSE
  ELSE IF Head(a) = Head(b) THEN IsSubsequence(Tail(a), Tail(b))
  ELSE IsSubsequence(a, Tail(b))

\* C14 (amended): in the map the search fallback builds, a field's entries
\* are one run per searched value, the runs in the order of the values (the
\* order of the addresses for property_addresses); within a run the entries
\* are in scan order, the email document first, then attachments in upload
\* order.
C14_ScanOrderPerValue ==
  \A r \in Slots :
    (Resolved(r) /\ searched[r]) =>
      \A f \in FieldKeys :
        LET got == ProvOf(r)[f]
        IN  /\ \A i \in 1..Len(got) :
                 "match" \in DOMAIN got[i] /\ ScanRank(r, got[i].doc) >= 0
            /\ IsSubsequence(RunMatches(r, got), SearchedValues(DataOf(r), f))

\* C14 witness: with two attachments and two addresses that are found in
\* every document, the entries are email, first attachment, second
\* attachment for the first address, then the same for the second.
C14_Witness ==
  \E r \in Slots :
    /\ Resolved(r) /\ searched[r]
    /\ Len(req[r].attachments) = 2
    /\ LET got == ProvOf(r)["property_addresses"]
       IN  /\ Len(got) = 6
           /\ [i \in 1..6 |-> ScanRank(r, got[i].doc)] = <<0, 1, 2, 0, 1, 2>>
           /\ got[1].match # got[4].match

\* C15: a cache hit leaves LLM_CACHE as it was, the result returned being
\* the stored entry with cached = TRUE added; and no entry stored in
\* LLM_CACHE ever holds the cached marker.
C15_HitLeavesCache ==
  /\ [](\A k \in DOMAIN LLM_CACHE : "cached" \notin DOMAIN LLM_CACHE[k])
  /\ [][\A r \in Slots :
          HitStep(r)
          => /\ LLM_CACHE' = LLM_CACHE
             /\ KeyOf(req'[r]) \in DOMAIN LLM_CACHE
             /\ LET got == out'[r].body.llm_parsed
                    stored == LLM_CACHE[KeyOf(req'[r])]
                IN  /\ DOMAIN got = DOMAIN stored \cup {"cached"}
                    /\ got.cached = TRUE
                    /\ \A f \in DOMAIN stored : got[f] = stored[f]]_vars

\* C15 witness: two requests have been answered from the cache with the
\* same entry, which holds token usage and no cached marker.
C15_Witness ==
  \E r1, r2 \in Slots :
    /\ r1 # r2
    /\ Resolved(r1) /\ Resolved(r2)
    /\ "cached" \in DOMAIN out[r1].body.llm_parsed
    /\ "cached" \in DOMAIN out[r2].body.llm_parsed
    /\ KeyOf(req[r1]) = KeyOf(req[r2])
    /\ KeyOf(req[r1]) \in DOMAIN LLM_CACHE
    /\ "usage" \in DOMAIN LLM_CACHE[KeyOf(req[r1])]
    /\ "cached" \notin DOMAIN LLM_CACHE[KeyOf(req[r1])]

\* A result as line 304 forms it.
Complete(result) ==
  /\ {"status", "model", "data", "latency_ms"} \subseteq DOMAIN result
  /\ result.status = "ok"

\* The step in which slot r's client call returns and the entry for key k is
\* the result the slot's request is answered with.
StoresOwnResult(r, k) ==
  /\ pc[r] = "create" /\ pc'[r] = "done"
  /\ KeyOf(req[r]) = k
  /\ out'[r].status_code = 200
  /\ out'[r].body.llm_parsed = LLM_CACHE'[k]

\* C16: with requests for one cache key in flight together, every request
\* whose client call is in flight is answered, every entry of LLM_CACHE is at
\* all times a complete result with status "ok", and an entry changes only
\* by a request with that key storing the result it obtained.
C16_RaceIsBenign ==
  /\ \A r \in Slots : (pc[r] = "create") ~> (pc[r] = "done")
  /\ [](\A k \in DOMAIN LLM_CACHE : Complete(LLM_CACHE[k]))
  /\ [][\A k \in DOMAIN LLM_CACHE' :
          \/ k \in DOMAIN LLM_CACHE /\ LLM_CACHE'[k] = LLM_CACHE[k]
          \/ \E r \in Slots : StoresOwnResult(r, k)]_vars

\* C16 witness: two requests with one cache key both missed, each obtained
\* a result of its own from the client, and the entry is the result of one
\* of them.
C16_Witness ==
  \E r1, r2 \in Slots :
    /\ Resolved(r1) /\ Resolved(r2)
    /\ KeyOf(req[r1]) = KeyOf(req[r2])
    /\ "cached" \notin DOMAIN out[r1].body.llm_parsed
    /\ "cached" \notin DOMAIN out[r2].body.llm_parsed
    /\ out[r1].body.llm_parsed # out[r2].body.llm_parsed
    /\ LLM_CACHE[KeyOf(req[r1])] = out[r2].body.llm_parsed

====
